---- MODULE Spec2Model ----
(***************************************************************************)
(* moto/comprehend/models.py: the in-memory Comprehend backend.            *)
(*                                                                         *)
(* State: ComprehendBackend.recognizers (a Python dict, ARN -> recognizer, *)
(* kept in insertion order) and the tagging collaborator's store           *)
(* (ARN -> the key/value pairs attached to it); tagger_policy is the       *)
(* collaborator's treatment of a key that is attached again, which the     *)
(* backend neither sees nor chooses.  Every public method of the           *)
(* backend is one action.  The history variables call, outcome and old     *)
(* record the last call, what it returned or raised, and the store as it   *)
(* was before the call; live maps the ARNs created and not deleted since   *)
(* to the name and version of their last create, and created is the set of *)
(* ARNs that a create has returned.                                        *)
(***************************************************************************)
EXTENDS Naturals, Sequences, FiniteSets, TLC

VARIABLES recognizers, tags, tagger_policy, call, outcome, old, live, created,
          budget

vars == <<recognizers, tags, tagger_policy, call, outcome, old, live, created,
          budget>>

(***************************************************************************)
(* Bounds of the model: the number of calls made on a backend that starts  *)
(* empty (MaxOps), and on a backend whose registry is drawn from           *)
(* AnyRegistries (MaxOpsAny).                                              *)
(***************************************************************************)
MaxOps == 3
MaxOpsAny == 2

(***************************************************************************)
(* Inputs.                                                                 *)
(***************************************************************************)
region_name == "us-east-1"
account_id == "123456789012"

\* Recognizer names.  The second one makes (name, "") collide on the ARN
\* with ("rec1", "v1"): nothing validates a name.
Names == {"rec1", "rec1/version/v1"}
\* "" is the falsy version_name.
VersionNames == {"", "v1"}

\* The opaque creation inputs, echoed back unchanged.  The two settings
\* differ in every field, and no two fields of one setting are equal.
Settings ==
    { [language_code |-> "en",
       input_data_config |-> [DataFormat |-> "COMPREHEND_CSV"],
       data_access_role_arn |-> "arn:aws:iam::123456789012:role/r1",
       volume_kms_key_id |-> "vol-key-1",
       vpc_config |-> [Subnets |-> <<"subnet-1">>],
       model_kms_key_id |-> "model-key-1",
       model_policy |-> "policy-1"],
      [language_code |-> "es",
       input_data_config |-> [DataFormat |-> "AUGMENTED_MANIFEST"],
       data_access_role_arn |-> "arn:aws:iam::123456789012:role/r2",
       volume_kms_key_id |-> "vol-key-2",
       vpc_config |-> [Subnets |-> <<"subnet-2", "subnet-3">>],
       model_kms_key_id |-> "model-key-2",
       model_policy |-> "policy-2"] }

EnvTest == [Key |-> "env", Value |-> "test"]
EnvProd == [Key |-> "env", Value |-> "prod"]
TeamNlp == [Key |-> "team", Value |-> "nlp"]

\* tags: List[Dict[str, str]]: no tag, two keys, and one of the two keys
\* with another value.  The keys of one list are pairwise different: the
\* callers pre-validate their inputs, and what the collaborator does with
\* a key given twice in one list is described nowhere.
TagLists ==
    { <<>>, <<EnvTest, TeamNlp>>, <<EnvProd>> }

\* tag_keys: List[str]: no key, a key of TagLists, and a key of TagLists
\* with a key that no tag has.
TagKeyLists ==
    { <<>>, <<"env">>, <<"team", "owner">> }

\* _filter: Dict[str, Any]
NoFilter == [key \in {} |-> ""]
NameFilters ==
    {NoFilter} \cup {("RecognizerName" :> n) : n \in Names \cup {"other"}}
IgnoredFilters ==
    { NoFilter,
      ("Status" :> "TRAINING") @@ ("SubmitTimeBefore" :> "2023-01-01")
          @@ ("SubmitTimeAfter" :> "2022-01-01") }
Filters == {nf @@ xf : nf \in NameFilters, xf \in IgnoredFilters}

Statuses == {"TRAINED", "TRAINING", "STOP_REQUESTED", "IN_ERROR"}

(***************************************************************************)
(* Python dicts whose iteration order is observed: a sequence of entries   *)
(* [k, v] in insertion order, with pairwise different keys wherever        *)
(* DictGet and DictSet are used.                                           *)
(***************************************************************************)
DictKeys(d) == {d[i].k : i \in 1..Len(d)}

DictHas(d, key) == key \in DictKeys(d)

DictIndex(d, key) == CHOOSE i \in 1..Len(d) : d[i].k = key

\* d[key]
DictGet(d, key) == d[DictIndex(d, key)].v

\* d[key] = value: an existing key keeps its place, a new key goes last.
DictSet(d, key, value) ==
    IF DictHas(d, key)
    THEN [d EXCEPT ![DictIndex(d, key)] = [k |-> key, v |-> value]]
    ELSE Append(d, [k |-> key, v |-> value])

\* d.pop(key, None) / del d[key] guarded by membership: no entry under key
\* is left.
DictPop(d, key) == SelectSeq(d, LAMBDA e : e.k # key)

\* list(d.values())
DictValues(d) == [i \in 1..Len(d) |-> d[i].v]

(***************************************************************************)
(* EntityRecognizer                                                        *)
(***************************************************************************)
\* ArnFormat with the version suffix appended whether or not version_name
\* is empty.
ArnFormatAlwaysVersion(rname, vname) ==
    "arn:aws:comprehend:" \o region_name \o ":" \o account_id
        \o ":entity-recognizer/" \o rname \o "/version/" \o vname

\* self.arn = f"arn:aws:comprehend:{region_name}:{account_id}:entity-recognizer/{recognizer_name}"
\* if version_name: self.arn += f"/version/{version_name}"
ArnFormat(rname, vname) ==
    LET base == "arn:aws:comprehend:" \o region_name \o ":" \o account_id
                    \o ":entity-recognizer/" \o rname
    IN  IF vname # "" THEN base \o "/version/" \o vname ELSE base

\* ArnFormat over the inputs of the model, computed once.
ArnTable == [rname \in Names, vname \in VersionNames |-> ArnFormat(rname, vname)]

ArnOf(rname, vname) == ArnTable[rname, vname]

\* EntityRecognizer with the two KMS key ids taken from each other's
\* parameter.
EntityRecognizerSwappedKeys(rname, vname, s) ==
    [name |-> rname,
     arn |-> ArnOf(rname, vname),
     language_code |-> s.language_code,
     input_data_config |-> s.input_data_config,
     data_access_role_arn |-> s.data_access_role_arn,
     version_name |-> vname,
     volume_kms_key_id |-> s.model_kms_key_id,
     vpc_config |-> s.vpc_config,
     model_kms_key_id |-> s.volume_kms_key_id,
     model_policy |-> s.model_policy,
     status |-> "TRAINED"]

\* EntityRecognizer that starts in status TRAINING.
EntityRecognizerTraining(rname, vname, s) ==
    [name |-> rname,
     arn |-> ArnOf(rname, vname),
     language_code |-> s.language_code,
     input_data_config |-> s.input_data_config,
     data_access_role_arn |-> s.data_access_role_arn,
     version_name |-> vname,
     volume_kms_key_id |-> s.volume_kms_key_id,
     vpc_config |-> s.vpc_config,
     model_kms_key_id |-> s.model_kms_key_id,
     model_policy |-> s.model_policy,
     status |-> "TRAINING"]

EntityRecognizer(rname, vname, s) ==
    [name |-> rname,
     arn |-> ArnOf(rname, vname),
     language_code |-> s.language_code,
     input_data_config |-> s.input_data_config,
     data_access_role_arn |-> s.data_access_role_arn,
     version_name |-> vname,
     volume_kms_key_id |-> s.volume_kms_key_id,
     vpc_config |-> s.vpc_config,
     model_kms_key_id |-> s.model_kms_key_id,
     model_policy |-> s.model_policy,
     status |-> "TRAINED"]

to_dict(r) ==
    [EntityRecognizerArn |-> r.arn,
     LanguageCode |-> r.language_code,
     Status |-> r.status,
     InputDataConfig |-> r.input_data_config,
     DataAccessRoleArn |-> r.data_access_role_arn,
     VersionName |-> r.version_name,
     VolumeKmsKeyId |-> r.volume_kms_key_id,
     VpcConfig |-> r.vpc_config,
     ModelKmsKeyId |-> r.model_kms_key_id,
     ModelPolicy |-> r.model_policy]

\* Every ARN a create of this model can produce.
Arns == {ArnOf(n, v) : n \in Names, v \in VersionNames}

\* The ARNs handed to the operations that take one: those, and for the
\* operations on the registry and list_tags_for_resource one that no create
\* returns.
OtherArn == "arn:aws:comprehend:us-east-1:123456789012:entity-recognizer/other"
OpArns == Arns \cup {OtherArn}

(***************************************************************************)
(* TaggingService (moto.utilities.tagging_service), the tagging            *)
(* collaborator: a map from ARN to the key/value pairs attached to it, in  *)
(* the order they were attached.  tag_resource attaches pairs,             *)
(* untag_resource_using_names removes the pairs under the given keys and   *)
(* list_tags_for_resource hands the pairs back.  What becomes of a pair    *)
(* when its key is attached again is not fixed: under "replace" the new    *)
(* pair takes the place of the earlier one, under "keep" both stay         *)
(* attached.  A backend works with one of the two throughout.              *)
(***************************************************************************)
TaggerPolicies == {"replace", "keep"}

\* The pairs of an ARN after one more pair is attached.
TagDictWith(d, tag, policy) ==
    IF policy = "replace"
    THEN DictSet(d, tag.Key, tag.Value)
    ELSE Append(d, [k |-> tag.Key, v |-> tag.Value])

RECURSIVE TagDictAfter(_, _, _)
\* The pairs of an ARN after the pairs of tlist are attached, in order.
TagDictAfter(d, tlist, policy) ==
    IF tlist = <<>> THEN d
    ELSE TagDictAfter(TagDictWith(d, Head(tlist), policy), Tail(tlist), policy)

TaggerTagResource(store, arn, tlist, policy) ==
    IF tlist = <<>> THEN store
    ELSE LET cur == IF arn \in DOMAIN store THEN store[arn] ELSE <<>>
         IN  (arn :> TagDictAfter(cur, tlist, policy)) @@ store

RECURSIVE TagDictWithout(_, _)
TagDictWithout(d, keys) ==
    IF keys = <<>> THEN d
    ELSE TagDictWithout(DictPop(d, Head(keys)), Tail(keys))

TaggerUntagResourceUsingNames(store, arn, keys) ==
    IF arn \in DOMAIN store
    THEN [store EXCEPT ![arn] = TagDictWithout(store[arn], keys)]
    ELSE store

\* list_tags_for_resource(arn)["Tags"]
TaggerListTagsForResource(store, arn) ==
    IF arn \in DOMAIN store
    THEN [i \in 1..Len(store[arn]) |->
             [Key |-> store[arn][i].k, Value |-> store[arn][i].v]]
    ELSE <<>>


(***************************************************************************)
(* ComprehendBackend: the methods that only read, as operators on the      *)
(* store.  A result is [err, ret]: err names the exception raised          *)
(* ("none" when the call returns) and ret is the sequence of values        *)
(* returned.                                                               *)
(***************************************************************************)
Returns(ret) == [err |-> "none", ret |-> ret]
Raises(err) == [err |-> err, ret |-> <<>>]

describe_entity_recognizer(recs, arn) ==
    IF ~DictHas(recs, arn)
    THEN Raises("ResourceNotFound")
    ELSE Returns(<<DictGet(recs, arn)>>)

\* list_entity_recognizers without the RecognizerName filter.
list_entity_recognizers_unfiltered(recs, filter) ==
    Returns(DictValues(recs))

list_entity_recognizers(recs, filter) ==
    IF "RecognizerName" \in DOMAIN filter
    THEN Returns(SelectSeq(DictValues(recs),
                           LAMBDA entity : entity.name = filter["RecognizerName"]))
    ELSE Returns(DictValues(recs))

list_tags_for_resource(store, arn) ==
    Returns(TaggerListTagsForResource(store, arn))

(***************************************************************************)
(* The store after construction, and the actions.                          *)
(***************************************************************************)
NoTags == [a \in {} |-> <<>>]
NoLive == [a \in {} |-> <<>>]

Init ==
    /\ recognizers = <<>>
    /\ tags = NoTags
    /\ tagger_policy \in TaggerPolicies
    /\ call = [op |-> "init"]
    /\ outcome = Returns(<<>>)
    /\ old = [recognizers |-> <<>>, tags |-> NoTags, created |-> {}]
    /\ live = NoLive
    /\ created = {}
    /\ budget = MaxOps

\* Bookkeeping shared by the actions: the call, its outcome and the store
\* before it.  No call changes the collaborator's policy.
Record(c, result) ==
    /\ budget > 0
    /\ budget' = budget - 1
    /\ tagger_policy' = tagger_policy
    /\ call' = c
    /\ outcome' = result
    /\ old' = [recognizers |-> recognizers, tags |-> tags, created |-> created]

\* create_entity_recognizer without the call of tagger.tag_resource.
CreateWithoutTags(rname, vname, s, tlist) ==
    LET recognizer == EntityRecognizer(rname, vname, s)
    IN  /\ recognizers' = DictSet(recognizers, recognizer.arn, recognizer)
        /\ tags' = tags
        /\ live' = (recognizer.arn :>
                        [name |-> rname, version_name |-> vname, settings |-> s])
                        @@ live
        /\ created' = created \cup {recognizer.arn}
        /\ Record([op |-> "create", name |-> rname, version_name |-> vname,
                   settings |-> s, tags |-> tlist],
                  Returns(<<recognizer.arn>>))

CreateEntityRecognizer(rname, vname, s, tlist) ==
    LET recognizer == EntityRecognizer(rname, vname, s)
    IN  /\ recognizers' = DictSet(recognizers, recognizer.arn, recognizer)
        /\ tags' = TaggerTagResource(tags, recognizer.arn, tlist, tagger_policy)
        /\ live' = (recognizer.arn :>
                        [name |-> rname, version_name |-> vname, settings |-> s])
                        @@ live
        /\ created' = created \cup {recognizer.arn}
        /\ Record([op |-> "create", name |-> rname, version_name |-> vname,
                   settings |-> s, tags |-> tlist],
                  Returns(<<recognizer.arn>>))

DescribeEntityRecognizer(arn) ==
    /\ Record([op |-> "describe", arn |-> arn],
              describe_entity_recognizer(recognizers, arn))
    /\ UNCHANGED <<recognizers, tags, live, created>>

ListEntityRecognizers(filter) ==
    /\ Record([op |-> "list", filter |-> filter],
              list_entity_recognizers(recognizers, filter))
    /\ UNCHANGED <<recognizers, tags, live, created>>

\* stop_training_entity_recognizer that returns when the ARN is unknown.
StopIgnoreMissing(arn) ==
    LET found == describe_entity_recognizer(recognizers, arn)
    IN  /\ recognizers' =
               IF found.err = "none" /\ found.ret[1].status = "TRAINING"
               THEN DictSet(recognizers, arn,
                            [found.ret[1] EXCEPT !.status = "STOP_REQUESTED"])
               ELSE recognizers
        /\ Record([op |-> "stop", arn |-> arn], Returns(<<>>))
        /\ UNCHANGED <<tags, live, created>>

\* stop_training_entity_recognizer without the test of the status.
StopAlways(arn) ==
    LET found == describe_entity_recognizer(recognizers, arn)
    IN  /\ IF found.err # "none"
           THEN /\ UNCHANGED recognizers
                /\ Record([op |-> "stop", arn |-> arn], Raises(found.err))
           ELSE /\ recognizers' =
                       DictSet(recognizers, arn,
                               [found.ret[1] EXCEPT !.status = "STOP_REQUESTED"])
                /\ Record([op |-> "stop", arn |-> arn], Returns(<<>>))
        /\ UNCHANGED <<tags, live, created>>

StopTrainingEntityRecognizer(arn) ==
    LET found == describe_entity_recognizer(recognizers, arn)
    IN  /\ IF found.err # "none"
           THEN /\ UNCHANGED recognizers
                /\ Record([op |-> "stop", arn |-> arn], Raises(found.err))
           ELSE /\ recognizers' =
                       IF found.ret[1].status = "TRAINING"
                       THEN DictSet(recognizers, arn,
                                    [found.ret[1] EXCEPT !.status = "STOP_REQUESTED"])
                       ELSE recognizers
                /\ Record([op |-> "stop", arn |-> arn], Returns(<<>>))
        /\ UNCHANGED <<tags, live, created>>

ListTagsForResource(arn) ==
    /\ Record([op |-> "list_tags", arn |-> arn],
              list_tags_for_resource(tags, arn))
    /\ UNCHANGED <<recognizers, tags, live, created>>

\* delete_entity_recognizer by self.recognizers.pop(arn), with no default.
DeleteStrict(arn) ==
    /\ recognizers' = DictPop(recognizers, arn)
    /\ live' = [a \in DOMAIN live \ {arn} |-> live[a]]
    /\ Record([op |-> "delete", arn |-> arn],
              IF DictHas(recognizers, arn) THEN Returns(<<>>) ELSE Raises("KeyError"))
    /\ UNCHANGED <<tags, created>>

\* delete_entity_recognizer that drops the tags of the ARN too.
DeleteAndUntag(arn) ==
    /\ recognizers' = DictPop(recognizers, arn)
    /\ live' = [a \in DOMAIN live \ {arn} |-> live[a]]
    /\ tags' = [a \in DOMAIN tags \ {arn} |-> tags[a]]
    /\ Record([op |-> "delete", arn |-> arn], Returns(<<>>))
    /\ UNCHANGED created

DeleteEntityRecognizer(arn) ==
    /\ recognizers' = DictPop(recognizers, arn)
    /\ live' = [a \in DOMAIN live \ {arn} |-> live[a]]
    /\ Record([op |-> "delete", arn |-> arn], Returns(<<>>))
    /\ UNCHANGED <<tags, created>>

TagResource(arn, tlist) ==
    /\ tags' = TaggerTagResource(tags, arn, tlist, tagger_policy)
    /\ Record([op |-> "tag", arn |-> arn, tags |-> tlist], Returns(<<>>))
    /\ UNCHANGED <<recognizers, live, created>>

\* untag_resource that drops every tag of the ARN.
UntagAll(arn, keys) ==
    /\ tags' = [a \in DOMAIN tags \ {arn} |-> tags[a]]
    /\ Record([op |-> "untag", arn |-> arn, tag_keys |-> keys], Returns(<<>>))
    /\ UNCHANGED <<recognizers, live, created>>

UntagResource(arn, keys) ==
    /\ tags' = TaggerUntagResourceUsingNames(tags, arn, keys)
    /\ Record([op |-> "untag", arn |-> arn, tag_keys |-> keys], Returns(<<>>))
    /\ UNCHANGED <<recognizers, live, created>>

Next ==
    \/ \E rname \in Names, vname \in VersionNames, s \in Settings, tlist \in TagLists :
           CreateEntityRecognizer(rname, vname, s, tlist)
    \/ \E arn \in OpArns : DescribeEntityRecognizer(arn)
    \/ \E filter \in Filters : ListEntityRecognizers(filter)
    \/ \E arn \in OpArns : StopTrainingEntityRecognizer(arn)
    \/ \E arn \in OpArns : ListTagsForResource(arn)
    \/ \E arn \in OpArns : DeleteEntityRecognizer(arn)
    \/ \E arn \in Arns, tlist \in TagLists : TagResource(arn, tlist)
    \/ \E arn \in Arns, keys \in TagKeyLists : UntagResource(arn, keys)

Spec == Init /\ [][Next]_vars

(***************************************************************************)
(* The same backend started from a registry that holds recognizers in any  *)
(* status.  No method of the backend sets a status other than TRAINED or   *)
(* STOP_REQUESTED, but status is a plain attribute of the object that      *)
(* describe_entity_recognizer hands out, and stop_training reads it.       *)
(***************************************************************************)
AnySettings ==
    CHOOSE s \in Settings : s.language_code = "en"

AnyRecognizers ==
    { [EntityRecognizer("rec1", vname, AnySettings) EXCEPT !.status = st] :
          vname \in VersionNames, st \in Statuses }

Entry(r) == [k |-> r.arn, v |-> r]

AnyRegistries ==
    {<<>>}
        \cup {<<Entry(r)>> : r \in AnyRecognizers}
        \cup {<<Entry(p[1]), Entry(p[2])>> :
                 p \in {q \in AnyRecognizers \X AnyRecognizers : q[1].arn # q[2].arn}}

LiveOf(reg) ==
    [a \in DictKeys(reg) |->
        [name |-> DictGet(reg, a).name,
         version_name |-> DictGet(reg, a).version_name,
         settings |-> AnySettings]]

InitAny ==
    /\ recognizers \in AnyRegistries
    /\ tags = NoTags
    /\ tagger_policy \in TaggerPolicies
    /\ call = [op |-> "init"]
    /\ outcome = Returns(<<>>)
    /\ old = [recognizers |-> recognizers, tags |-> NoTags,
              created |-> DictKeys(recognizers)]
    /\ live = LiveOf(recognizers)
    /\ created = DictKeys(recognizers)
    /\ budget = MaxOpsAny

SpecAny == InitAny /\ [][Next]_vars

(***************************************************************************)
(* Properties.  Each is stated about the last call (call), what it         *)
(* returned or raised (outcome), the store before it (old) and the store   *)
(* after it (recognizers, tags).                                           *)
(***************************************************************************)
Range(seq) == {seq[i] : i \in 1..Len(seq)}

\* The entry of arn is the same in the registries a and b.
SameEntry(a, b, arn) ==
    /\ DictHas(a, arn) <=> DictHas(b, arn)
    /\ DictHas(a, arn) => DictGet(a, arn) = DictGet(b, arn)

\* The keys of a dict in iteration order.
KeyOrder(d) == [i \in 1..Len(d) |-> d[i].k]

\* The tags listed for arn in a tag store.
Listed(store, arn) == list_tags_for_resource(store, arn).ret

\* C1: describe_entity_recognizer on the ARN returned by
\* create_entity_recognizer succeeds and returns a record whose name,
\* version_name, language_code, input_data_config, data_access_role_arn,
\* volume_kms_key_id, vpc_config, model_kms_key_id and model_policy equal the
\* inputs of the create, and whose status is TRAINED.
C1_DescribeAfterCreate ==
    call.op = "create" =>
        /\ outcome.err = "none"
        /\ Len(outcome.ret) = 1
        /\ LET d == describe_entity_recognizer(recognizers, outcome.ret[1])
           IN  /\ d.err = "none"
               /\ d.ret[1].name = call.name
               /\ d.ret[1].version_name = call.version_name
               /\ d.ret[1].language_code = call.settings.language_code
               /\ d.ret[1].input_data_config = call.settings.input_data_config
               /\ d.ret[1].data_access_role_arn = call.settings.data_access_role_arn
               /\ d.ret[1].volume_kms_key_id = call.settings.volume_kms_key_id
               /\ d.ret[1].vpc_config = call.settings.vpc_config
               /\ d.ret[1].model_kms_key_id = call.settings.model_kms_key_id
               /\ d.ret[1].model_policy = call.settings.model_policy
               /\ d.ret[1].status = "TRAINED"

\* A create over an existing recognizer of the same ARN that was created
\* with other inputs, in a registry that holds another recognizer too.
C1_Witness ==
    /\ call.op = "create"
    /\ Len(old.recognizers) = 2
    /\ DictHas(old.recognizers, outcome.ret[1])
    /\ DictGet(old.recognizers, outcome.ret[1]).language_code
           # call.settings.language_code
    /\ DictGet(old.recognizers, outcome.ret[1]).name # call.name

\* C2: describe_entity_recognizer(arn) and
\* stop_training_entity_recognizer(arn) raise ResourceNotFound exactly when
\* arn is not a key of the registry, and then leave the registry (every
\* status included) and the tag store unchanged; when arn is a key neither
\* raises.
C2_NotFoundIffAbsent ==
    call.op \in {"describe", "stop"} =>
        /\ outcome.err \in {"none", "ResourceNotFound"}
        /\ outcome.err = "ResourceNotFound" <=> ~DictHas(old.recognizers, call.arn)
        /\ outcome.err = "ResourceNotFound" =>
               /\ recognizers = old.recognizers
               /\ tags = old.tags

\* stop_training raises for an ARN that was created and deleted.
C2_Witness ==
    /\ call.op = "stop"
    /\ outcome.err = "ResourceNotFound"
    /\ call.arn \in created
    /\ ~DictHas(recognizers, call.arn)

\* C3: delete_entity_recognizer(arn) never raises; after it describe(arn)
\* raises ResourceNotFound; every entry under another ARN is unchanged; a
\* delete of an absent ARN leaves the registry exactly as it was; and an
\* ARN absent from the registry becomes a key again only by a create that
\* returns it.
C3_DeleteRemovesOnlyThatArn ==
    /\ call.op = "delete" =>
           /\ outcome.err = "none"
           /\ describe_entity_recognizer(recognizers, call.arn).err
                  = "ResourceNotFound"
           /\ DictKeys(recognizers) = DictKeys(old.recognizers) \ {call.arn}
           /\ \A b \in OpArns \ {call.arn} :
                  SameEntry(recognizers, old.recognizers, b)
           /\ ~DictHas(old.recognizers, call.arn) =>
                  recognizers = old.recognizers
    /\ \A a \in OpArns :
           (DictHas(recognizers, a) /\ ~DictHas(old.recognizers, a)) =>
               (call.op = "create" /\ outcome.ret = <<a>>)

\* A delete of a present ARN out of a registry of two.
C3_Witness ==
    /\ call.op = "delete"
    /\ DictHas(old.recognizers, call.arn)
    /\ Len(old.recognizers) = 2
    /\ Len(recognizers) = 1

\* C4: stop_training_entity_recognizer(arn) on an ARN of the registry sets
\* the status to STOP_REQUESTED if and only if the status was TRAINING; any
\* other status is left as it was and nothing is raised; no other field of
\* the recognizer, no other recognizer and no tag changes.
C4_StopOnlyFromTraining ==
    (call.op = "stop" /\ DictHas(old.recognizers, call.arn)) =>
        /\ outcome.err = "none"
        /\ DictHas(recognizers, call.arn)
        /\ LET before == DictGet(old.recognizers, call.arn)
               after == DictGet(recognizers, call.arn)
           IN  /\ before.status = "TRAINING" => after.status = "STOP_REQUESTED"
               /\ before.status # "TRAINING" => after.status = before.status
               /\ [after EXCEPT !.status = before.status] = before
        /\ KeyOrder(recognizers) = KeyOrder(old.recognizers)
        /\ \A b \in OpArns \ {call.arn} :
               SameEntry(recognizers, old.recognizers, b)
        /\ tags = old.tags

\* A stop of a TRAINING recognizer next to another TRAINING recognizer.
C4_Witness ==
    /\ call.op = "stop"
    /\ Len(old.recognizers) = 2
    /\ \A i \in 1..2 : old.recognizers[i].v.status = "TRAINING"
    /\ DictHas(recognizers, call.arn)
    /\ DictGet(recognizers, call.arn).status = "STOP_REQUESTED"

\* The filter without the keys list_entity_recognizers does not implement.
NameOnly(filter) ==
    [key \in DOMAIN filter \cap {"RecognizerName"} |-> filter[key]]

\* C5: list_entity_recognizers returns, each once, the recognizers created
\* and not deleted since (live) whose name equals the filter's
\* RecognizerName, or all of them when the filter has no RecognizerName;
\* the keys Status, SubmitTimeBefore and SubmitTimeAfter change nothing, and
\* the store is unchanged.
C5_ListFiltersByName ==
    call.op = "list" =>
        LET expected ==
                {a \in DOMAIN live :
                    "RecognizerName" \in DOMAIN call.filter =>
                        live[a].name = call.filter["RecognizerName"]}
        IN  /\ outcome.err = "none"
            /\ {r.arn : r \in Range(outcome.ret)} = expected
            /\ Len(outcome.ret) = Cardinality(expected)
            /\ \A r \in Range(outcome.ret) :
                   /\ r = DictGet(recognizers, r.arn)
                   /\ r.name = live[r.arn].name
                   /\ r.version_name = live[r.arn].version_name
            /\ outcome = list_entity_recognizers(recognizers, NameOnly(call.filter))
            /\ recognizers = old.recognizers
            /\ tags = old.tags

\* A list by name, with a Status key in the filter, that returns one of two
\* recognizers.
C5_Witness ==
    /\ call.op = "list"
    /\ {"RecognizerName", "Status"} \subseteq DOMAIN call.filter
    /\ Len(recognizers) = 2
    /\ Len(outcome.ret) = 1

C7_UntagRemovesExactlyKeys ==
    call.op = "untag" =>
        LET before == Listed(old.tags, call.arn)
            after == Listed(tags, call.arn)
            keys == Range(call.tag_keys)
        IN  /\ outcome.err = "none"
            /\ after = SelectSeq(before, LAMBDA t : t.Key \notin keys)
            /\ \A b \in OpArns \ {call.arn} :
                   /\ Listed(tags, b) = Listed(old.tags, b)
                   /\ b \in DOMAIN tags <=> b \in DOMAIN old.tags
            /\ recognizers = old.recognizers
            /\ (\A t \in Range(before) : t.Key \notin keys) => tags = old.tags

\* An untag of one of two keys, while another ARN has tags.
C7_Witness ==
    /\ call.op = "untag"
    /\ Len(Listed(old.tags, call.arn)) = 2
    /\ Len(Listed(tags, call.arn)) = 1
    /\ \E b \in OpArns \ {call.arn} : Listed(tags, b) # <<>>

\* C8: create_entity_recognizer never raises and returns
\* arn:aws:comprehend:{region}:{account}:entity-recognizer/{name}, followed
\* by /version/{version_name} exactly when version_name is not empty; when
\* that ARN is already a key the registry does not grow and the entry is
\* replaced by the new record, with status TRAINED whatever the replaced
\* record's status; every entry under another ARN is unchanged.
C8_CreateOverwrites ==
    call.op = "create" =>
        LET expected ==
                "arn:aws:comprehend:us-east-1:123456789012:entity-recognizer/"
                    \o call.name
                    \o (IF call.version_name = "" THEN ""
                        ELSE "/version/" \o call.version_name)
        IN  /\ outcome.err = "none"
            /\ outcome.ret = <<expected>>
            /\ DictHas(recognizers, expected)
            /\ Len(recognizers) =
                   IF DictHas(old.recognizers, expected)
                   THEN Len(old.recognizers)
                   ELSE Len(old.recognizers) + 1
            /\ DictGet(recognizers, expected) =
                   [name |-> call.name,
                    arn |-> expected,
                    language_code |-> call.settings.language_code,
                    input_data_config |-> call.settings.input_data_config,
                    data_access_role_arn |-> call.settings.data_access_role_arn,
                    version_name |-> call.version_name,
                    volume_kms_key_id |-> call.settings.volume_kms_key_id,
                    vpc_config |-> call.settings.vpc_config,
                    model_kms_key_id |-> call.settings.model_kms_key_id,
                    model_policy |-> call.settings.model_policy,
                    status |-> "TRAINED"]
            /\ \A b \in OpArns \ {expected} :
                   SameEntry(recognizers, old.recognizers, b)

\* A create over a TRAINING recognizer that has the same ARN and another
\* name, next to another recognizer.
C8_Witness ==
    /\ call.op = "create"
    /\ call.version_name = ""
    /\ Len(old.recognizers) = 2
    /\ Len(recognizers) = 2
    /\ DictHas(old.recognizers, outcome.ret[1])
    /\ DictGet(old.recognizers, outcome.ret[1]).status = "TRAINING"
    /\ DictGet(old.recognizers, outcome.ret[1]).name # call.name

\* C9: tag_resource, untag_resource and list_tags_for_resource never raise,
\* whether or not the ARN has a recognizer, and leave the registry as it
\* was; delete_entity_recognizer and stop_training_entity_recognizer leave
\* the tag store as it was, so the tags of a deleted recognizer stay listed.
C9_RegistryAndTagsIndependent ==
    /\ call.op \in {"tag", "untag", "list_tags"} =>
           /\ outcome.err = "none"
           /\ recognizers = old.recognizers
    /\ call.op = "list_tags" => outcome.ret = Listed(old.tags, call.arn)
    /\ call.op \in {"delete", "stop"} =>
           /\ tags = old.tags
           /\ Listed(tags, call.arn) = Listed(old.tags, call.arn)

\* A delete of a recognizer that was created with tags: the tags are
\* still listed.
C9_Witness ==
    /\ call.op = "delete"
    /\ DictHas(old.recognizers, call.arn)
    /\ ~DictHas(recognizers, call.arn)
    /\ Len(Listed(tags, call.arn)) = 2

\* C10: from the empty store every recognizer of the registry has status
\* TRAINED, and stop_training_entity_recognizer changes neither the
\* registry nor the tag store.
C10_AlwaysTrained ==
    /\ \A i \in 1..Len(recognizers) : recognizers[i].v.status = "TRAINED"
    /\ call.op = "stop" =>
           /\ recognizers = old.recognizers
           /\ tags = old.tags

\* A stop of a recognizer of the registry, which returns.
C10_Witness ==
    /\ call.op = "stop"
    /\ outcome.err = "none"
    /\ DictHas(recognizers, call.arn)
    /\ Len(recognizers) = 2

====
